---- MODULE Spec2Model ----
(***************************************************************************)
(* Smart parking data platform: the observation store, the ingestor       *)
(* (ingestion/update_data.py save_to_database over database/repository.py) *)
(* and the model registry (ml/train_model.py train_model over              *)
(* ParkingRepository.save_model_metadata), each run inside                 *)
(* database/connection.py session_scope.                                   *)
(*                                                                         *)
(* A nullable column or dict value is a sequence: <<>> is None, <<v>> is   *)
(* the value v.  A timestamp is a number of hours since Monday 00:00.      *)
(***************************************************************************)
EXTENDS Integers, Sequences, FiniteSets, TLC

VARIABLES
    backend,            \* DATABASE_URL: "sqlite" or "postgresql"
    feed,               \* the records a source fetch may hand to the ingestor
    parking_locations,  \* committed rows of table parking_locations
    raw_parking_data,   \* committed rows of table raw_parking_data
    processed_parking_data, \* committed rows of table processed_parking_data
    sess,               \* per ingestion process: its batch, position and open transaction
    used,               \* records handed to the ingestor so far
    last,               \* the last committed batch and the row counts it left
    supplied,           \* per parking name, the last non-null capacity of a committed batch
    clock,              \* the wall clock, in seconds
    model_metadata,     \* committed rows of table model_metadata
    model_file,         \* models/basel_parking_model.pkl: the run whose fitted model it holds
    metadata_file,      \* models/model_metadata.pkl
    trainer,            \* per training process: its position and open transaction
    runs,               \* training runs started so far
    observed,           \* what the last get_active_model query found
    last_version,       \* the version of the last run whose registry write committed
    historical_file,    \* data/historical/Basel_parking_history.csv: None or its rows
    current_file,       \* data/processed/Basel_parking.csv: None or its rows
    predictions,        \* committed rows of table predictions
    server,             \* the serving process: what app.py loaded at import
    sample,             \* one draw of generate_synthetic_data and what it appended
    reconciled,         \* the arguments of the last update_prediction_actual call
    frame               \* the DataFrame the last process_data built, and by which module

ingestVars == <<feed, parking_locations, raw_parking_data, processed_parking_data,
                sess, used, last, supplied>>

trainVars == <<clock, model_metadata, model_file, metadata_file, trainer, runs,
               observed, last_version>>

dataVars == <<historical_file, current_file, frame>>

serveVars == <<predictions, server, sample, reconciled>>

vars == <<backend, ingestVars, trainVars, dataVars, serveVars>>

-----------------------------------------------------------------------------
(* Bounds and value domains *)

MaxRecords == 4

MaxClock == 3

MaxRuns == 3

Trainers == {"t1", "t2"}

model_path == "models/basel_parking_model.pkl"

Workers == {"w1", "w2"}

None == <<>>

Some(v) == <<v>>

CITY == "Basel"

NoName == "<None>"

Backends == {"sqlite", "postgresql"}

Rec(n, p, t, f, s) ==
    [name |-> n, published |-> p, total |-> t, free |-> f, status |-> s]

\* 'published' as <<weekday, hour>>: Monday 10:00 and Saturday 18:00; any other
\* shape (None, text that is no date) does not parse
T1 == <<0, 10>>

T2 == <<5, 18>>

FeedSeq ==
    { Rec("A", T1, Some(100), Some(40), Some("offen")),
      Rec("B", T1, Some(50), Some(10), Some("offen")),
      Rec("A", T2, Some(50), Some(10), Some("geschlossen")),
      Rec("A", T2, None, None, None),
      Rec(NoName, T1, Some(50), Some(10), Some("offen")),
      Rec("B", None, Some(50), Some(10), Some("offen")) }

FeedConc ==
    { Rec("A", T1, Some(100), Some(40), Some("offen")),
      Rec("A", T1, Some(50), None, None),
      Rec("B", None, Some(50), Some(10), Some("offen")) }

Batches(records, n) == UNION { [1..k -> records] : k \in 1..n }

WellFormed(record) == record.name # NoName /\ Len(record.published) = 2

-----------------------------------------------------------------------------
(* Pure helpers *)

MaxOf(S) == IF S = {} THEN 0 ELSE CHOOSE m \in S : \A x \in S : x <= m

Ids(rows) == { r.id : r \in rows }

hour(ts) == ts % 24

weekday(ts) == (ts \div 24) % 7

\* update_data.py 237: pd.to_datetime, here to hours since Monday 00:00
to_datetime(published) ==
    IF Len(published) = 2 THEN Some(published[1] * 24 + published[2]) ELSE None

occupied_of_swapped(total, free) ==
    IF total # None /\ free # None THEN Some(free[1] - total[1]) ELSE None

\* update_data.py 252-255: occupied and occupancy_pct of one record; the percentage
\* occupied / total * 100 is kept as the exact fraction [num, den]
occupied_of(total, free) ==
    IF total # None /\ free # None THEN Some(total[1] - free[1]) ELSE None

occupancy_pct_of(total, occupied) ==
    IF total # None /\ total[1] # 0 /\ total[1] > 0 /\ occupied # None
    THEN Some([num |-> occupied[1] * 100, den |-> total[1]])
    ELSE None

-----------------------------------------------------------------------------
(* The ingestor's session: database/connection.py session_scope *)

Idle ==
    [pc |-> "idle", batch |-> <<>>, i |-> 0, found |-> 0, err |-> "", overlapped |-> FALSE,
     locs_new |-> {}, locs_dirty |-> {}, raw_new |-> {}, proc_new |-> {}]

Others(w) == Workers \ {w}

InTxn(w) == sess[w].pc \in {"select", "write", "raw", "proc", "commit"}

HasWrites(w) ==
    \/ sess[w].locs_new # {}
    \/ sess[w].locs_dirty # {}
    \/ sess[w].raw_new # {}
    \/ sess[w].proc_new # {}

\* SQLite takes one write lock for the whole database; PostgreSQL locks rows
WriteLockFree(w) ==
    backend = "sqlite" => \A v \in Others(w) : ~HasWrites(v)

\* what the session's queries see: committed rows and its own flushed writes
LocView(w) ==
    { l \in parking_locations : l.id \notin Ids(sess[w].locs_dirty) }
        \cup sess[w].locs_dirty \cup sess[w].locs_new

NextLocId ==
    MaxOf(Ids(parking_locations) \cup UNION { Ids(sess[v].locs_new) : v \in Workers }) + 1

NextRawId ==
    MaxOf(Ids(raw_parking_data) \cup UNION { Ids(sess[v].raw_new) : v \in Workers }) + 1

NextProcId ==
    MaxOf(Ids(processed_parking_data) \cup UNION { Ids(sess[v].proc_new) : v \in Workers }) + 1

uq_city_parking_absent(rows, city, parking_name) == FALSE

\* models.py 47: UniqueConstraint('city', 'parking_name')
uq_city_parking(rows, city, parking_name) ==
    \E l \in rows : l.city = city /\ l.parking_name = parking_name

upsert_attr_overwrites(old, value) == value

\* repository.py 39-41: a keyword value replaces the attribute unless it is None
upsert_attr(old, value) == IF value # None THEN value ELSE old

\* session.commit(): the committed tables with the session's writes applied
committed_tables(w) ==
    [locations |-> LocView(w),
     raw |-> raw_parking_data \cup sess[w].raw_new,
     processed |-> processed_parking_data \cup sess[w].proc_new]

rolled_back_tables_partial(w) == committed_tables(w)

\* session.rollback(): the committed tables after the session's writes are undone
rolled_back_tables(w) ==
    [locations |-> parking_locations,
     raw |-> raw_parking_data,
     processed |-> processed_parking_data]

Closed(w, pc, err) ==
    [sess[w] EXCEPT !.pc = pc, !.err = err, !.locs_new = {}, !.locs_dirty = {},
                    !.raw_new = {}, !.proc_new = {}]

\* the except branch of session_scope: rollback, close, re-raise
Raise(w, err) ==
    /\ sess' = [sess EXCEPT ![w] = Closed(w, "failed", err)]
    /\ parking_locations' = rolled_back_tables(w).locations
    /\ raw_parking_data' = rolled_back_tables(w).raw
    /\ processed_parking_data' = rolled_back_tables(w).processed
    /\ UNCHANGED <<last, supplied>>

Record(w) == sess[w].batch[sess[w].i]

Names == { r.name : r \in FeedSeq \cup FeedConc } \ {NoName}

RECURSIVE LastSupplied(_, _, _)
\* the last non-null capacity each name was given, after records k.. of a batch
LastSupplied(sup, batch, k) ==
    IF k > Len(batch) THEN sup
    ELSE LastSupplied(
            [sup EXCEPT ![batch[k].name] =
                IF batch[k].total # None THEN batch[k].total ELSE @],
            batch, k + 1)

-----------------------------------------------------------------------------
(* save_to_database, one step per database statement *)

\* update_data.py 212-213: open the session and take the batch
Begin(w) ==
    /\ sess[w].pc \in {"idle", "done", "failed"}
    /\ used < MaxRecords
    /\ \E b \in Batches(feed, MaxRecords - used) :
        /\ sess' = [v \in Workers |->
                IF v = w
                THEN [Idle EXCEPT !.pc = "select", !.batch = b, !.i = 1,
                                  !.overlapped = \E u \in Others(w) : InTxn(u)]
                ELSE [sess[v] EXCEPT !.overlapped = @ \/ InTxn(v)]]
        /\ used' = used + Len(b)
    /\ UNCHANGED <<dataVars, serveVars, trainVars, backend, feed, parking_locations, raw_parking_data,
                   processed_parking_data, last, supplied>>

\* repository.py 33-36: upsert_location's query, .first()
upsert_location_query(w) ==
    /\ sess[w].pc = "select"
    /\ LET hits == { l \in LocView(w) :
                        l.city = CITY /\ l.parking_name = Record(w).name }
       IN  \/ /\ hits = {}
              /\ sess' = [sess EXCEPT ![w].pc = "write", ![w].found = 0]
           \/ \E l \in hits :
                sess' = [sess EXCEPT ![w].pc = "write", ![w].found = l.id]
    /\ UNCHANGED <<dataVars, serveVars, trainVars, backend, feed, parking_locations, raw_parking_data,
                   processed_parking_data, used, last, supplied>>

\* repository.py 38-42, 51: the location exists: set the non-null attributes, flush
upsert_location_update(w) ==
    /\ sess[w].pc = "write"
    /\ sess[w].found # 0
    /\ WriteLockFree(w)
    /\ \A v \in Others(w) : sess[w].found \notin Ids(sess[v].locs_dirty)
    /\ LET cur == CHOOSE l \in LocView(w) : l.id = sess[w].found
           new == [cur EXCEPT !.capacity = upsert_attr(cur.capacity, Record(w).total)]
       IN  sess' = [sess EXCEPT
                ![w].pc = "raw",
                ![w].locs_new = IF cur \in @ THEN (@ \ {cur}) \cup {new} ELSE @,
                ![w].locs_dirty = IF cur \in sess[w].locs_new THEN @
                                  ELSE { l \in @ : l.id # cur.id } \cup {new}]
    /\ UNCHANGED <<dataVars, serveVars, trainVars, backend, feed, parking_locations, raw_parking_data,
                   processed_parking_data, used, last, supplied>>

\* repository.py 43-51: no such location: add one with the given attributes, flush
upsert_location_insert(w) ==
    /\ sess[w].pc = "write"
    /\ sess[w].found = 0
    /\ WriteLockFree(w)
    /\ LET name == Record(w).name
       IN  IF name = NoName
           THEN \* parking_name is nullable=False (models.py 29)
                Raise(w, "IntegrityError")
           ELSE IF uq_city_parking(parking_locations \cup sess[w].locs_new, CITY, name)
           THEN Raise(w, "IntegrityError")
           ELSE \* a concurrent uncommitted insert of the same key makes this one wait
                /\ ~uq_city_parking(UNION { sess[v].locs_new : v \in Others(w) }, CITY, name)
                /\ sess' = [sess EXCEPT
                        ![w].pc = "raw",
                        ![w].found = NextLocId,
                        ![w].locs_new = @ \cup
                            {[id |-> NextLocId, city |-> CITY, parking_name |-> name,
                              capacity |-> Record(w).total, is_active |-> TRUE]}]
                /\ UNCHANGED <<parking_locations, raw_parking_data,
                               processed_parking_data, last, supplied>>
    /\ UNCHANGED <<dataVars, serveVars, trainVars, backend, feed, used>>

\* update_data.py 237-249 and repository.py 80-91
insert_raw_data(w) ==
    /\ sess[w].pc = "raw"
    /\ WriteLockFree(w)
    /\ LET source_ts == to_datetime(Record(w).published)
       IN  IF source_ts = None
           THEN \* unparseable text raises in pd.to_datetime; a missing value is
                \* refused by source_timestamp nullable=False (models.py 65)
                Raise(w, "BadTimestamp")
           ELSE /\ sess' = [sess EXCEPT
                        ![w].pc = "proc",
                        ![w].raw_new = @ \cup
                            {[id |-> NextRawId, location_id |-> sess[w].found,
                              city |-> CITY, source_timestamp |-> source_ts[1],
                              free_spaces |-> Record(w).free,
                              total_spaces |-> Record(w).total,
                              status |-> Record(w).status]}]
                /\ UNCHANGED <<parking_locations, raw_parking_data,
                               processed_parking_data, last, supplied>>
    /\ UNCHANGED <<dataVars, serveVars, trainVars, backend, feed, used>>

\* update_data.py 251-269 and repository.py 120-139: the processed row of a record
ProcessedParkingData(id, location_id, record) ==
    LET total == record.total
        free == record.free
        occupied == occupied_of(total, free)
        occupancy_pct == occupancy_pct_of(total, occupied)
        timestamp == to_datetime(record.published)[1]
        status == record.status
    IN  [id |-> id, location_id |-> location_id, city |-> CITY,
         parking_name |-> record.name, timestamp |-> timestamp,
         hour |-> hour(timestamp), day_of_week |-> weekday(timestamp),
         is_weekend |-> weekday(timestamp) >= 5,
         capacity |-> total, free_spaces |-> free,
         occupied |-> occupied, occupancy_pct |-> occupancy_pct,
         status |-> status,
         is_open |-> IF status # None THEN Some(status = Some("offen")) ELSE None]

\* update_data.py 251-269 and repository.py 120-142
insert_processed_data(w) ==
    /\ sess[w].pc = "proc"
    /\ WriteLockFree(w)
    /\ LET more == sess[w].i < Len(sess[w].batch)
       IN  sess' = [sess EXCEPT
                ![w].pc = IF more THEN "select" ELSE "commit",
                ![w].i = IF more THEN @ + 1 ELSE @,
                ![w].proc_new = @ \cup
                    {ProcessedParkingData(NextProcId, sess[w].found, Record(w))}]
    /\ UNCHANGED <<dataVars, serveVars, trainVars, backend, feed, parking_locations, raw_parking_data,
                   processed_parking_data, used, last, supplied>>

\* connection.py 56: the with block ended normally: session.commit()
session_commit(w) ==
    /\ sess[w].pc = "commit"
    /\ parking_locations' = committed_tables(w).locations
    /\ raw_parking_data' = committed_tables(w).raw
    /\ processed_parking_data' = committed_tables(w).processed
    /\ sess' = [sess EXCEPT ![w] = Closed(w, "done", "")]
    /\ last' = IF sess[w].batch = last.batch
               THEN [last EXCEPT !.twice = TRUE]
               ELSE [batch |-> sess[w].batch,
                     nraw |-> Cardinality(committed_tables(w).raw),
                     nproc |-> Cardinality(committed_tables(w).processed),
                     twice |-> FALSE]
    /\ supplied' = LastSupplied(supplied, sess[w].batch, 1)
    /\ UNCHANGED <<dataVars, serveVars, trainVars, backend, feed, used>>

\* connection.py 57-59: the store fails under any statement or under the commit
\* (connection lost, lock timeout, deadlock victim): rollback and re-raise
session_error(w) ==
    /\ InTxn(w)
    /\ Raise(w, "OperationalError")
    /\ UNCHANGED <<dataVars, serveVars, trainVars, backend, feed, used>>

save_to_database(w) ==
    \/ Begin(w)
    \/ upsert_location_query(w)
    \/ upsert_location_update(w)
    \/ upsert_location_insert(w)
    \/ insert_raw_data(w)
    \/ insert_processed_data(w)
    \/ session_commit(w)
    \/ session_error(w)

-----------------------------------------------------------------------------
(* Contents of the data files and of a store with history *)

FileRow(name, published, capacity, occupied) ==
    [parking_name |-> name, timestamp |-> published, capacity |-> capacity,
     occupied |-> occupied]

\* an unusable row: capacity 0, capacity missing or occupied missing, in turn
BadFileRow(k) ==
    IF k % 3 = 1 THEN FileRow("C", T1, Some(0), Some(0))
    ELSE IF k % 3 = 2 THEN FileRow("C", T1, None, Some(5))
    ELSE FileRow("C", T1, Some(100), None)

\* n_valid rows of garage A (capacity 100, 'spread' distinct occupied values)
\* followed by n_bad unusable rows
FileRows(n_valid, n_bad, spread) ==
    [i \in 1..(n_valid + n_bad) |->
        IF i <= n_valid
        THEN FileRow("A", IF i % 2 = 0 THEN T1 ELSE T2, Some(100), Some(40 + (i % spread)))
        ELSE BadFileRow(i - n_valid)]

\* the processed rows save_to_database leaves for the same records
StoreRows(n_valid, n_bad) ==
    { ProcessedParkingData(i, 1,
        IF i <= n_valid
        THEN Rec("A", IF i % 2 = 0 THEN T1 ELSE T2, Some(100), Some(60 - (i % 3)),
                 Some("offen"))
        ELSE IF (i - n_valid) % 3 = 1 THEN Rec("A", T1, Some(0), Some(0), None)
        ELSE IF (i - n_valid) % 3 = 2 THEN Rec("A", T1, None, Some(5), None)
        ELSE Rec("A", T1, Some(100), None, None)) : i \in 1..(n_valid + n_bad) }

NotServing ==
    [loaded |-> FALSE, model |-> 0, version |-> None, metadata_run |-> 0,
     garage_info |-> <<>>]

NoFrame == [module |-> "", raised |-> "", rows |-> <<>>]

NoSample == [drawn |-> FALSE, row |-> None, draw |-> None, rate |-> None, out |-> None]

NoCall == [prediction_id |-> 0, actual_occupied |-> 0, found |-> FALSE]

-----------------------------------------------------------------------------
(* DataFrames and load_training_data *)

MIN_RECORDS == 50

\* a DataFrame: its column names and its rows by index label
DataFrame(columns, rows) == [columns |-> columns, rows |-> rows]

\* pd.DataFrame([]): no rows and no columns
EmptyFrame == DataFrame({}, <<>>)

len(df) == Cardinality(DOMAIN df.rows)

\* df[mask]
filter(df, mask) ==
    DataFrame(df.columns, [i \in { j \in DOMAIN df.rows : mask[j] } |-> df.rows[i]])

\* df[column] = values, a new column or a replaced one
assign(df, column, values) ==
    DataFrame(df.columns \cup {column},
              [i \in DOMAIN df.rows |-> (column :> values[i]) @@ df.rows[i]])

\* df['timestamp'].dt.hour, df['timestamp'].dt.weekday, df['day_of_week']
dt_hour(df) == [i \in DOMAIN df.rows |-> hour(df.rows[i].timestamp[1])]

dt_weekday(df) == [i \in DOMAIN df.rows |-> weekday(df.rows[i].timestamp[1])]

day_of_week(df) == [i \in DOMAIN df.rows |-> df.rows[i].day_of_week]

\* train_model.py 64, 80
notnull(df) ==
    [i \in DOMAIN df.rows |-> df.rows[i].occupied # None /\ df.rows[i].capacity # None]

positive_capacity_unchecked(df) == [i \in DOMAIN df.rows |-> TRUE]

\* train_model.py 65
positive_capacity(df) == [i \in DOMAIN df.rows |-> df.rows[i].capacity[1] > 0]

get_training_data_unfiltered(processed, city) ==
    DataFrame({"hour", "day_of_week", "capacity", "occupied", "parking_name"},
        [r \in { x \in processed : x.city = city } |->
            [hour |-> r.hour, day_of_week |-> r.day_of_week,
             capacity |-> r.capacity, occupied |-> r.occupied,
             parking_name |-> r.parking_name]])

\* repository.py 177-191: the rows of the city with occupied and capacity present
\* and capacity > 0, as five columns
get_training_data(processed, city) ==
    LET hits == { r \in processed :
                    r.city = city /\ r.occupied # None /\ r.capacity # None
                        /\ r.capacity[1] > 0 }
    IN  DataFrame({"hour", "day_of_week", "capacity", "occupied", "parking_name"},
            [r \in hits |->
                [hour |-> r.hour, day_of_week |-> r.day_of_week,
                 capacity |-> r.capacity, occupied |-> r.occupied,
                 parking_name |-> r.parking_name]])

\* pd.read_csv and pd.to_datetime(df['timestamp']) of a data file
read_csv(file) ==
    DataFrame({"parking_name", "timestamp", "capacity", "occupied"},
              [i \in DOMAIN file |-> [file[i] EXCEPT !.timestamp = to_datetime(@)]])

parses(file) == \A i \in DOMAIN file : to_datetime(file[i].timestamp) # None

Returned(df, needs_synthetic, tier, db_len, archive_len) ==
    [raised |-> "", df |-> df, needs_synthetic |-> needs_synthetic, tier |-> tier,
     db_len |-> db_len, archive_len |-> archive_len]

Raised(err, tier, db_len, archive_len) ==
    [raised |-> err, df |-> EmptyFrame, needs_synthetic |-> FALSE, tier |-> tier,
     db_len |-> db_len, archive_len |-> archive_len]

\* train_model.py 77-82: the current snapshot, for the generator
synthetic_tier(cur, db_len, archive_len) ==
    IF cur = None THEN Raised("FileNotFoundError", "synthetic", db_len, archive_len)
    ELSE IF ~parses(cur[1]) THEN Raised("ParserError", "synthetic", db_len, archive_len)
    ELSE LET df == read_csv(cur[1])
         IN  Returned(filter(df, notnull(df)), TRUE, "synthetic", db_len, archive_len)

\* train_model.py 57-75: the historical CSV, if the file exists
archive_tier(hist, cur, db_len) ==
    IF hist = None THEN synthetic_tier(cur, db_len, None)
    ELSE IF ~parses(hist[1]) THEN Raised("ParserError", "archive", db_len, None)
    ELSE LET read == read_csv(hist[1])
             present == filter(read, notnull(read))
             df == filter(present, positive_capacity(present))
         IN  IF len(df) >= MIN_RECORDS
             THEN Returned(
                    assign(assign(df, "hour", dt_hour(df)), "weekday", dt_weekday(df)),
                    FALSE, "archive", db_len, Some(len(df)))
             ELSE synthetic_tier(cur, db_len, Some(len(df)))

load_training_data_reraising(processed, db_raises, hist, cur) ==
    IF db_raises THEN Raised("OperationalError", "database", None, None)
    ELSE LET df == get_training_data(processed, CITY)
         IN  IF len(df) >= MIN_RECORDS
             THEN Returned(assign(df, "weekday", day_of_week(df)),
                           FALSE, "database", Some(len(df)), None)
             ELSE archive_tier(hist, cur, Some(len(df)))

\* train_model.py 31-82; db_raises: the try block of lines 40-53 raised
load_training_data(processed, db_raises, hist, cur) ==
    IF db_raises THEN archive_tier(hist, cur, None)
    ELSE LET df == get_training_data(processed, CITY)
         IN  IF len(df) >= MIN_RECORDS
             THEN Returned(assign(df, "weekday", day_of_week(df)),
                           FALSE, "database", Some(len(df)), None)
             ELSE archive_tier(hist, cur, Some(len(df)))

-----------------------------------------------------------------------------
(* generate_synthetic_data; rates are kept exact, in units of 1/(1000 * capacity),
   factors in tenths and the noise in thousandths *)

n_samples_per_parking == 200

hour_factor_shoulder_first(h) ==
    IF (6 <= h /\ h < 8) \/ (19 <= h /\ h <= 22) THEN 7
    ELSE IF (8 <= h /\ h <= 10) \/ (17 <= h /\ h <= 19) THEN 12
    ELSE IF 10 < h /\ h < 17 THEN 10
    ELSE 3

\* train_model.py 108-115, in tenths
hour_factor(h) ==
    IF (8 <= h /\ h <= 10) \/ (17 <= h /\ h <= 19) THEN 12
    ELSE IF 10 < h /\ h < 17 THEN 10
    ELSE IF (6 <= h /\ h < 8) \/ (19 <= h /\ h <= 22) THEN 7
    ELSE 3

\* train_model.py 118, in tenths
day_factor(wd) == IF wd >= 5 THEN 6 ELSE 10

clip_dropped(x, lo, hi) == x

\* np.clip
clip(x, lo, hi) == IF x < lo THEN lo ELSE IF x > hi THEN hi ELSE x

\* int() of the quotient num / den, den > 0: truncation toward zero
int(num, den) == IF num >= 0 THEN num \div den ELSE -((-num) \div den)

\* train_model.py 101, 121-122: base_occupancy * hour_factor * day_factor + noise
occupancy_rate(capacity, occupied, h, wd, noise) ==
    10 * occupied * hour_factor(h) * day_factor(wd) + noise * capacity

\* train_model.py 123-125
synthetic_occupied(capacity, occupied, h, wd, noise) ==
    int(clip(occupancy_rate(capacity, occupied, h, wd, noise),
             50 * capacity, 950 * capacity),
        1000)

Draw(h, wd, noise) == [hour |-> h, weekday |-> wd, noise |-> noise]

\* train_model.py 127-133
synthetic_sample(row, draw) ==
    [parking_name |-> row.parking_name, hour |-> draw.hour, weekday |-> draw.weekday,
     capacity |-> row.capacity,
     occupied |-> Some(synthetic_occupied(row.capacity[1], row.occupied[1],
                                          draw.hour, draw.weekday, draw.noise))]

usable_any(df) == DOMAIN df.rows

\* train_model.py 98: the rows a sample can be derived from
usable(df) ==
    { i \in DOMAIN df.rows : df.rows[i].capacity # None /\ df.rows[i].capacity[1] > 0 }

\* int() of a NaN rate raises: a usable row whose occupied is missing
generate_raises(df) == \E i \in usable(df) : df.rows[i].occupied = None

\* train_model.py 85-135; stream: the draws of np.random for one row's samples
generate_synthetic_data(df, stream) ==
    IF usable(df) = {} THEN EmptyFrame
    ELSE LET n == n_samples_per_parking
             iterrows == [j \in 1..Cardinality(usable(df)) |->
                            CHOOSE i \in usable(df) :
                                Cardinality({ x \in usable(df) : x < i }) = j - 1]
         IN  DataFrame({"parking_name", "hour", "weekday", "capacity", "occupied"},
                [k \in 1..(Len(iterrows) * n) |->
                    synthetic_sample(df.rows[iterrows[((k - 1) \div n) + 1]],
                                     stream[((k - 1) % n) + 1])])

\* the random streams a training run may see: two draws in turn
TrainDraws == { Draw(9, 0, 0), Draw(3, 6, -300) }

Streams ==
    { [k \in 1..n_samples_per_parking |-> IF k % 2 = 1 THEN d1 ELSE d2] :
        d1 \in TrainDraws, d2 \in TrainDraws }

-----------------------------------------------------------------------------
(* train_model 145-168: features, split and fit *)

\* what one run saw: the resolver's answer and the data the fit was given
Log(loaded, err, n_rows, n_train, targets) ==
    [tier |-> loaded.tier, returned |-> loaded.raised = "",
     needs_synthetic |-> loaded.needs_synthetic, n_loaded |-> len(loaded.df),
     db_len |-> loaded.db_len, archive_len |-> loaded.archive_len,
     err |-> err, n_rows |-> n_rows, n_train |-> n_train,
     n_test |-> n_rows - n_train, targets |-> targets,
     generated |-> [n \in {} |-> 0], shape |-> {}]

NoLog == Log(Raised("", "", None, None), "", 0, 0, {})

Failed(loaded, err) == Log(loaded, err, 0, 0, {})

\* sklearn's train_test_split(test_size=0.2): the test part is ceil(0.2 n)
train_size(n) == n - ((n + 4) \div 5)

\* train_model.py 155-168: X, y, the split (which refuses an empty train part)
\* and the fit
fit_on(loaded, df) ==
    IF ~({"hour", "weekday", "capacity", "occupied"} \subseteq df.columns)
    THEN Failed(loaded, "KeyError")
    ELSE IF train_size(len(df)) = 0
    THEN Failed(loaded, "ValueError")
    ELSE Log(loaded, "", len(df), train_size(len(df)),
             { df.rows[i].occupied : i \in DOMAIN df.rows })

\* the generator's output as one run saw it: the samples per parking_name
value_counts(df) ==
    [n \in { df.rows[i].parking_name : i \in DOMAIN df.rows } |->
        Cardinality({ i \in DOMAIN df.rows : df.rows[i].parking_name = n })]

\* the distinct (parking_name, capacity, hour, weekday) of the samples
features(df) ==
    { [parking_name |-> df.rows[i].parking_name, capacity |-> df.rows[i].capacity,
       hour |-> df.rows[i].hour, weekday |-> df.rows[i].weekday] : i \in DOMAIN df.rows }

\* train_model.py 147-152: the generator, or hour and weekday from 'timestamp'
derive_features(loaded, stream) ==
    IF loaded.raised # "" THEN Failed(loaded, loaded.raised)
    ELSE IF loaded.needs_synthetic
    THEN IF generate_raises(loaded.df) THEN Failed(loaded, "ValueError")
         ELSE CHOOSE log \in
                { [fit_on(loaded, df) EXCEPT !.generated = value_counts(df),
                                             !.shape = features(df)] :
                    df \in { generate_synthetic_data(loaded.df, stream) } } : TRUE
    ELSE IF "timestamp" \notin loaded.df.columns THEN Failed(loaded, "KeyError")
    ELSE fit_on(loaded,
                assign(assign(loaded.df, "hour", dt_hour(loaded.df)),
                       "weekday", dt_weekday(loaded.df)))

-----------------------------------------------------------------------------
(* train_model and the model registry *)

IdleTrainer ==
    [pc |-> "idle", run |-> 0, version |-> 0, snapshot |-> {}, locked |-> {},
     row_new |-> {}, writing |-> FALSE, outcome |-> "", file0 |-> 0,
     n_samples |-> 0, needs_synthetic |-> FALSE, log |-> NoLog]

OtherTrainers(t) == Trainers \ {t}

InSession(t) == trainer[t].pc \in {"update", "update_wait", "insert", "commit"}

NextMetaId ==
    MaxOf(Ids(model_metadata) \cup UNION { Ids(trainer[u].row_new) : u \in Trainers }) + 1

\* train_model.py 181: datetime.now().strftime("%Y%m%d_%H%M%S"), one string per second
strftime(now) == now

active_ids_none(rows) == {}

\* repository.py 272-274: the rows the deactivating UPDATE selects
active_ids(rows) == { m.id : m \in { r \in rows : r.is_active } }

ModelMetadata_unflagged(id, version, run, n_samples, is_synthetic, path) ==
    [id |-> id, version |-> version, run |-> run, n_samples |-> n_samples,
     is_synthetic |-> FALSE, model_path |-> path, is_active |-> TRUE]

\* repository.py 276-285: the row save_model_metadata adds
ModelMetadata(id, version, run, n_samples, is_synthetic, path) ==
    [id |-> id, version |-> version, run |-> run, n_samples |-> n_samples,
     is_synthetic |-> is_synthetic, model_path |-> path, is_active |-> TRUE]

\* models.py 177: version is unique=True
uq_version(rows, version) == \E m \in rows : m.version = version

\* session.commit(): model_metadata with the session's writes applied
registry_committed(t) ==
    { IF m.id \in trainer[t].locked THEN [m EXCEPT !.is_active = FALSE] ELSE m :
        m \in model_metadata } \cup trainer[t].row_new

\* session.rollback(): model_metadata after the session's writes are undone
registry_rolled_back(t) == model_metadata

Finished(t, outcome) ==
    [trainer[t] EXCEPT !.pc = "done", !.outcome = outcome, !.snapshot = {},
                       !.locked = {}, !.row_new = {}, !.writing = FALSE]

\* train_model.py 215-216: the exception of the registry write is caught and printed
Swallow(t) ==
    /\ trainer' = [trainer EXCEPT ![t] = Finished(t, "swallowed")]
    /\ model_metadata' = registry_rolled_back(t)
    /\ UNCHANGED <<clock, model_file, metadata_file, runs, observed, last_version>>

\* train_model.py 145-178: load the data, derive the features, fit and evaluate;
\* an exception of these lines ends the run
fit(t) ==
    /\ trainer[t].pc \in {"idle", "done"}
    /\ runs < MaxRuns
    /\ runs' = runs + 1
    /\ \E db_raises \in BOOLEAN :
        \E loaded \in { load_training_data(processed_parking_data, db_raises,
                                           historical_file, current_file) } :
        \E stream \in IF loaded.needs_synthetic THEN Streams
                       ELSE { CHOOSE one \in Streams : TRUE } :
        \E fitted \in { derive_features(loaded, stream) } :
            trainer' = [trainer EXCEPT ![t] =
                [IdleTrainer EXCEPT
                    !.pc = IF fitted.err = "" THEN "dump_model" ELSE "done",
                    !.outcome = IF fitted.err = "" THEN "" ELSE "raised",
                    !.run = runs + 1, !.file0 = model_file,
                    !.n_samples = fitted.n_rows,
                    !.needs_synthetic = loaded.needs_synthetic,
                    !.log = fitted]]
    /\ UNCHANGED <<clock, model_metadata, model_file, metadata_file, observed,
                   last_version>>
    /\ UNCHANGED <<backend, ingestVars, dataVars, serveVars>>

\* train_model.py 145-178 raising for a cause outside the data (out of memory,
\* interrupt): the run ends before line 180
fit_raises(t) ==
    /\ trainer[t].pc \in {"idle", "done"}
    /\ runs < MaxRuns
    /\ runs' = runs + 1
    /\ trainer' = [trainer EXCEPT ![t] =
            [IdleTrainer EXCEPT !.pc = "done", !.run = runs + 1,
                                !.file0 = model_file, !.outcome = "raised",
                                !.log = [NoLog EXCEPT !.err = "Exception"]]]
    /\ UNCHANGED <<clock, model_metadata, model_file, metadata_file, observed,
                   last_version>>
    /\ UNCHANGED <<backend, ingestVars, dataVars, serveVars>>

\* train_model.py 181-183: the version is read off the clock, the model is dumped
dump_model(t) ==
    /\ trainer[t].pc = "dump_model"
    /\ trainer' = [trainer EXCEPT ![t].pc = "dump_meta", ![t].version = strftime(clock)]
    /\ model_file' = trainer[t].run
    /\ UNCHANGED <<clock, model_metadata, metadata_file, runs, observed, last_version>>
    /\ UNCHANGED <<backend, ingestVars, dataVars, serveVars>>

\* train_model.py 187-197
dump_metadata(t) ==
    /\ trainer[t].pc = "dump_meta"
    /\ metadata_file' = [version |-> Some(trainer[t].version), run |-> trainer[t].run]
    /\ trainer' = [trainer EXCEPT ![t].pc = "update"]
    /\ UNCHANGED <<clock, model_metadata, model_file, runs, observed, last_version>>
    /\ UNCHANGED <<backend, ingestVars, dataVars, serveVars>>

\* repository.py 272-274: the UPDATE starts and selects the committed active rows
deactivate_start(t) ==
    /\ trainer[t].pc = "update"
    /\ backend = "sqlite" => \A u \in OtherTrainers(t) : ~trainer[u].writing
    /\ trainer' = [trainer EXCEPT ![t].pc = "update_wait", ![t].writing = TRUE,
                                  ![t].snapshot = active_ids(model_metadata)]
    /\ UNCHANGED <<clock, model_metadata, model_file, metadata_file, runs, observed,
                   last_version>>
    /\ UNCHANGED <<backend, ingestVars, dataVars, serveVars>>

\* the UPDATE ends: it waits for the rows another transaction has updated, then
\* updates those of its rows that still satisfy is_active = True
deactivate_finish(t) ==
    /\ trainer[t].pc = "update_wait"
    /\ \A u \in OtherTrainers(t) : trainer[t].snapshot \cap trainer[u].locked = {}
    /\ trainer' = [trainer EXCEPT
            ![t].pc = "insert",
            ![t].locked = { m.id : m \in { r \in model_metadata :
                                r.id \in trainer[t].snapshot /\ r.is_active } }]
    /\ UNCHANGED <<clock, model_metadata, model_file, metadata_file, runs, observed,
                   last_version>>
    /\ UNCHANGED <<backend, ingestVars, dataVars, serveVars>>

\* repository.py 276-287: add the new row, is_active=True, and flush
insert_metadata(t) ==
    /\ trainer[t].pc = "insert"
    /\ IF uq_version(model_metadata, trainer[t].version)
       THEN Swallow(t)
       ELSE \* a concurrent uncommitted insert of the same version makes this one wait
            /\ ~uq_version(UNION { trainer[u].row_new : u \in OtherTrainers(t) },
                           trainer[t].version)
            /\ trainer' = [trainer EXCEPT
                    ![t].pc = "commit",
                    ![t].row_new = {ModelMetadata(NextMetaId, trainer[t].version,
                                        trainer[t].run, trainer[t].n_samples,
                                        trainer[t].needs_synthetic, model_path)}]
            /\ UNCHANGED <<clock, model_metadata, model_file, metadata_file, runs,
                           observed, last_version>>
    /\ UNCHANGED <<backend, ingestVars, dataVars, serveVars>>

\* connection.py 56: session.commit()
commit_metadata(t) ==
    /\ trainer[t].pc = "commit"
    /\ model_metadata' = registry_committed(t)
    /\ trainer' = [trainer EXCEPT ![t] = Finished(t, "saved")]
    /\ last_version' = Some(trainer[t].version)
    /\ UNCHANGED <<clock, model_file, metadata_file, runs, observed>>
    /\ UNCHANGED <<backend, ingestVars, dataVars, serveVars>>

\* connection.py 57-59 under train_model.py 215: the store fails under a statement
\* or under the commit
registry_error(t) ==
    /\ InSession(t)
    /\ Swallow(t)
    /\ UNCHANGED <<backend, ingestVars, dataVars, serveVars>>

train_model(t) ==
    \/ fit(t)
    \/ fit_raises(t)
    \/ dump_model(t)
    \/ dump_metadata(t)
    \/ deactivate_start(t)
    \/ deactivate_finish(t)
    \/ insert_metadata(t)
    \/ commit_metadata(t)
    \/ registry_error(t)

\* repository.py 291-295: a reader's query for the active rows
get_active_model ==
    /\ observed' = [active |-> Cardinality({ m \in model_metadata : m.is_active }),
                    rows |-> Cardinality(model_metadata)]
    /\ UNCHANGED <<dataVars, serveVars, backend, ingestVars, clock, model_metadata, model_file,
                   metadata_file, trainer, runs, last_version>>

\* a second passes
Tick ==
    /\ clock < MaxClock
    /\ clock' = clock + 1
    /\ UNCHANGED <<dataVars, serveVars, backend, ingestVars, model_metadata, model_file, metadata_file,
                   trainer, runs, observed, last_version>>

-----------------------------------------------------------------------------
(* One sample of generate_synthetic_data *)

SampleRows ==
    { FileRow("A", T1, c, o) :
        c \in {None, Some(0), Some(1), Some(10), Some(30), Some(100)},
        o \in {Some(0), Some(6), Some(30)} }

SampleDraws == { Draw(h, wd, noise) : h \in 0..23, wd \in 0..6, noise \in {-300, 0, 250} }

\* train_model.py 94-133: one turn of the inner loop for one row of the input
generate_sample ==
    /\ ~sample.drawn
    /\ \E row \in SampleRows, draw \in SampleDraws :
        sample' = [drawn |-> TRUE, row |-> Some(row), draw |-> Some(draw),
                   rate |-> IF row.capacity = None \/ row.capacity[1] <= 0 THEN None
                            ELSE Some(occupancy_rate(row.capacity[1], row.occupied[1],
                                                     draw.hour, draw.weekday, 0)),
                   out |-> IF row.capacity = None \/ row.capacity[1] <= 0 THEN None
                           ELSE Some(synthetic_sample(row, draw))]
    /\ UNCHANGED <<backend, ingestVars, trainVars, dataVars, predictions, server,
                   reconciled>>

-----------------------------------------------------------------------------
(* The serving process (api/app.py) and the prediction tracker *)

MaxPredictions == 2

\* Python's min and max of two numbers: the first argument unless the second
\* is smaller (greater)
min(a, b) == IF b < a THEN b ELSE a

max(a, b) == IF b > a THEN b ELSE a

clamp_dropped(capacity, pred) == pred

\* app.py 65: max(0, min(capacity, int(pred)))
clamp(capacity, pred) == max(0, min(capacity, pred))

abs_signed(x) == x

abs(x) == IF x < 0 THEN -x ELSE x

\* Python's 'capacity and capacity > 0'
truthy_positive(capacity) == capacity # None /\ capacity[1] # 0 /\ capacity[1] > 0

pct_unguarded(amount, capacity) ==
    IF capacity # None THEN Some([num |-> amount * 100, den |-> capacity[1]]) ELSE None

\* repository.py 224, 248-249: amount / capacity * 100 as the exact fraction
\* [num, den], or None
pct(amount, capacity) ==
    IF truthy_positive(capacity)
    THEN Some([num |-> amount * 100, den |-> capacity[1]])
    ELSE None

\* repository.py 224-236: the row insert_prediction adds
Prediction(id, location_id, parking_name, target_datetime, predicted_occupied, capacity, model_version) ==
    [id |-> id, location_id |-> location_id, city |-> CITY,
     parking_name |-> parking_name, target_datetime |-> target_datetime,
     predicted_occupied |-> predicted_occupied,
     predicted_occupancy_pct |-> pct(predicted_occupied, capacity),
     capacity |-> capacity, model_version |-> model_version,
     actual_occupied |-> None, actual_occupancy_pct |-> None,
     prediction_error |-> None]

update_prediction_actual_unkeyed(rows, prediction_id, actual_occupied) ==
    { [prediction EXCEPT
            !.actual_occupied = Some(actual_occupied),
            !.prediction_error =
                Some(abs(prediction.predicted_occupied - actual_occupied))] :
        prediction \in rows }

\* repository.py 245-251: the table after update_prediction_actual
update_prediction_actual(rows, prediction_id, actual_occupied) ==
    { IF prediction.id = prediction_id
      THEN [prediction EXCEPT
                !.actual_occupied = Some(actual_occupied),
                !.actual_occupancy_pct =
                    IF truthy_positive(prediction.capacity)
                    THEN pct(actual_occupied, prediction.capacity) ELSE @,
                !.prediction_error =
                    Some(abs(prediction.predicted_occupied - actual_occupied))]
      ELSE prediction : prediction \in rows }

NextPredictionId == MaxOf(Ids(predictions)) + 1

\* the garages of the current snapshot: capacity 100, 80, unknown and 50
ServedSnapshot ==
    <<FileRow("A", T1, Some(100), Some(60)), FileRow("B", T1, Some(80), Some(40)),
      FileRow("C", T1, None, None), FileRow("E", T1, Some(50), Some(10))>>

\* raw outputs of model.predict, in tenths, and what a caller reports
RawOutputs == {-35, 305, 405, 1500}

Garages == {"A", "B", "C", "E", "Z"}

Actuals == {25, 120}

\* app.py 22: the import reads the model file
app_load_model ==
    /\ ~server.loaded
    /\ server.model = 0
    /\ model_file # 0
    /\ server' = [server EXCEPT !.model = model_file]
    /\ UNCHANGED <<backend, ingestVars, trainVars, dataVars, predictions, sample,
                   reconciled>>

\* app.py 24-33: the import reads the metadata file, then the snapshot
app_load_metadata ==
    /\ ~server.loaded
    /\ server.model # 0
    /\ current_file # None
    /\ server' = [loaded |-> TRUE, model |-> server.model,
                  version |-> metadata_file.version,
                  metadata_run |-> metadata_file.run,
                  garage_info |->
                    [g \in { current_file[1][i].parking_name : i \in DOMAIN current_file[1] }
                        |-> [capacity |->
                                current_file[1][CHOOSE i \in DOMAIN current_file[1] :
                                    current_file[1][i].parking_name = g].capacity]]]
    /\ UNCHANGED <<backend, ingestVars, trainVars, dataVars, predictions, sample,
                   reconciled>>

\* app.py 21-33: the module is imported: model, metadata and garage_info load
app_import == app_load_model \/ app_load_metadata

\* app.py 49-94: one request. A garage the snapshot does not list is answered
\* with an error; a NaN capacity leaves max(0, min(nan, p)) = 0; the row is written
\* if the garage has a location and the session commits (an exception of the
\* model or of the session is answered or printed, and no row is written)
predict ==
    /\ server.loaded
    /\ Cardinality(predictions) < MaxPredictions
    /\ \E garage \in Garages, raw \in RawOutputs, stored \in BOOLEAN :
        predictions' =
            IF garage \notin DOMAIN server.garage_info THEN predictions
            ELSE LET capacity == server.garage_info[garage].capacity
                     pred == IF capacity = None THEN 0
                             ELSE clamp(capacity[1], int(raw, 10))
                     location == { l \in parking_locations :
                                    l.city = CITY /\ l.parking_name = garage }
                 IN  IF ~stored \/ location = {} THEN predictions
                     ELSE predictions \cup
                            {("origin" :> "predict") @@
                                Prediction(NextPredictionId,
                                           (CHOOSE l \in location : TRUE).id, garage,
                                           to_datetime(T1)[1], pred, capacity,
                                           server.version)}
    /\ UNCHANGED <<backend, ingestVars, trainVars, dataVars, server, sample,
                   reconciled>>

\* repository.py 218-239 called by another client of the repository, committed
record_prediction ==
    /\ Cardinality(predictions) < MaxPredictions
    /\ \E predicted_occupied \in {40, 150},
          capacity \in {None, Some(0), Some(-5), Some(80)} :
        predictions' = predictions \cup
            {("origin" :> "repository") @@
                Prediction(NextPredictionId, 1, "A", to_datetime(T2)[1],
                           predicted_occupied, capacity, None)}
    /\ UNCHANGED <<backend, ingestVars, trainVars, dataVars, server, sample,
                   reconciled>>

\* repository.py 241-251 in a session that commits; the id may be unknown
reconcile ==
    /\ \E prediction_id \in Ids(predictions) \cup {NextPredictionId},
          actual_occupied \in Actuals :
        /\ predictions' =
                update_prediction_actual(predictions, prediction_id, actual_occupied)
        /\ reconciled' = [prediction_id |-> prediction_id,
                          actual_occupied |-> actual_occupied,
                          found |-> prediction_id \in Ids(predictions)]
    /\ UNCHANGED <<backend, ingestVars, trainVars, dataVars, server, sample>>

-----------------------------------------------------------------------------
(* The CSV files: update_data.process_data, save_current, append_to_history and
   the script processing/process_parking_data.py *)

\* one row of the processed frame
Row(record, occupied, occupancy_pct) ==
    [parking_name |-> record.name, timestamp |-> record.published,
     capacity |-> record.total, free_spaces |-> record.free,
     occupied |-> occupied, occupancy_pct |-> occupancy_pct]

\* update_data.py 84-87: total - free where total is present; NaN when free is not
occupied_apply(total, free) ==
    IF total # None THEN (IF free # None THEN Some(total[1] - free[1]) ELSE None)
    ELSE None

\* update_data.py 88-91
occupancy_pct_apply(total, occupied) ==
    IF total # None /\ total[1] > 0
    THEN (IF occupied # None THEN Some([num |-> occupied[1] * 100, den |-> total[1]])
          ELSE None)
    ELSE None

\* update_data.py 69-109
process_data(records) ==
    [i \in DOMAIN records |->
        LET occupied == occupied_apply(records[i].total, records[i].free)
        IN  Row(records[i], occupied, occupancy_pct_apply(records[i].total, occupied))]

\* process_parking_data.py 31: the quotient wherever total is present; NaN when
\* occupied is
occupancy_pct_script(total, occupied) ==
    IF total # None
    THEN (IF occupied # None THEN Some([num |-> occupied[1] * 100, den |-> total[1]])
          ELSE None)
    ELSE None

\* process_parking_data.py 28-31
process_parking_data_frame(records) ==
    [i \in DOMAIN records |->
        LET occupied == occupied_apply(records[i].total, records[i].free)
        IN  Row(records[i], occupied, occupancy_pct_script(records[i].total, occupied))]

\* a division by a total of 0 in df.apply: the row holds Python numbers
\* (ZeroDivisionError) or numpy ones (inf or nan, with a warning)
DivisionOutcomes(rows) ==
    IF \E i \in DOMAIN rows : rows[i].occupancy_pct # None /\ rows[i].occupancy_pct[1].den = 0
    THEN {"ZeroDivisionError", ""}
    ELSE {""}

\* to_csv: the columns of a data file that the trainer and the server read
to_csv(rows) ==
    [i \in DOMAIN rows |->
        FileRow(rows[i].parking_name, rows[i].timestamp, rows[i].capacity,
                rows[i].occupied)]

\* the rows at the positions of a set, in order
iloc(rows, positions) ==
    [k \in 1..Cardinality(positions) |->
        rows[CHOOSE i \in positions : Cardinality({ j \in positions : j < i }) = k - 1]]

\* update_data.py 130: drop_duplicates(subset=['parking_name', 'timestamp'], keep='last')
drop_duplicates(rows) ==
    iloc(rows, { i \in DOMAIN rows :
                    \A j \in DOMAIN rows :
                        j > i => <<rows[j].parking_name, rows[j].timestamp>>
                                    # <<rows[i].parking_name, rows[i].timestamp>> })

\* update_data.py 118-138: the archive after append_to_history
append_to_history(file, rows) ==
    IF file # None THEN Some(drop_duplicates(file[1] \o rows)) ELSE Some(rows)

\* what a fetch may return for the files: two records of one key, a garage of
\* capacity 0, one of negative capacity, one without numbers
FilesFeed ==
    { Rec("A", T1, Some(100), Some(40), Some("offen")),
      Rec("A", T1, Some(50), Some(10), Some("offen")),
      Rec("B", T1, Some(0), Some(0), Some("geschlossen")),
      Rec("B", T2, Some(-5), Some(0), None),
      Rec("A", T2, None, None, None) }

MaxFetch == 2

\* update_data.py 172-186 where the database module is not available: the frame
\* is built, written as the current file and appended to the archive
update_all ==
    /\ \E records \in Batches(FilesFeed, MaxFetch) :
        /\ frame' = [module |-> "update_data", raised |-> "",
                     rows |-> process_data(records)]
        /\ current_file' = Some(to_csv(process_data(records)))
        /\ historical_file' = append_to_history(historical_file,
                                                to_csv(process_data(records)))
    /\ UNCHANGED <<backend, ingestVars, trainVars, serveVars>>

\* process_parking_data.py 9-46: the script builds the frame from the latest raw
\* file and writes the current file
process_parking_data ==
    /\ \E records \in Batches(FilesFeed, MaxFetch) :
        \E raised \in DivisionOutcomes(process_parking_data_frame(records)) :
            /\ frame' = [module |-> "process_parking_data", raised |-> raised,
                         rows |-> IF raised = "" THEN process_parking_data_frame(records)
                                  ELSE <<>>]
            /\ current_file' = IF raised = ""
                               THEN Some(to_csv(process_parking_data_frame(records)))
                               ELSE current_file
    /\ UNCHANGED <<backend, ingestVars, trainVars, serveVars, historical_file>>

-----------------------------------------------------------------------------
(* Specifications *)

InitStore(records) ==
    /\ backend \in Backends
    /\ feed = records
    /\ clock = 1
    /\ model_metadata = {}
    /\ model_file = 0
    /\ metadata_file = [version |-> None, run |-> 0]
    /\ trainer = [t \in Trainers |-> IdleTrainer]
    /\ runs = 0
    /\ observed = [active |-> 0, rows |-> 0]
    /\ last_version = None
    /\ parking_locations = {}
    /\ raw_parking_data = {}
    /\ processed_parking_data = {}
    /\ sess = [w \in Workers |-> Idle]
    /\ used = 0
    /\ last = [batch |-> <<>>, nraw |-> 0, nproc |-> 0, twice |-> FALSE]
    /\ supplied = [n \in Names |-> None]

\* the data files and the serving state, for the specifications that leave them
InitFiles(hist, cur) ==
    /\ historical_file = hist
    /\ current_file = cur
    /\ frame = NoFrame
    /\ predictions = {}
    /\ server = NotServing
    /\ sample = NoSample
    /\ reconciled = NoCall

\* ingestion runs one after another (the scheduled update_all)
NextIngestSeq == save_to_database("w1")

InitIngestSeq == InitStore(FeedSeq) /\ InitFiles(None, None)

SpecIngestSeq == InitIngestSeq /\ [][NextIngestSeq]_vars

\* two ingestion processes against the same store
NextIngest == \E w \in Workers : save_to_database(w)

InitIngestConc == InitStore(FeedConc) /\ InitFiles(None, None)

SpecIngest == InitIngestConc /\ [][NextIngest]_vars

\* an archive of 50 valid rows, no current snapshot
InitTrain == InitStore({}) /\ InitFiles(Some(FileRows(MIN_RECORDS, 0, 3)), None)

\* training runs one after another, and a reader
NextTrainSeq == train_model("t1") \/ Tick \/ get_active_model

SpecTrainSeq == InitTrain /\ [][NextTrainSeq]_vars

\* two training processes against the same registry, and a reader
NextTrain == (\E t \in Trainers : train_model(t)) \/ Tick \/ get_active_model

SpecTrain == InitTrain /\ [][NextTrain]_vars

\* stores, archives and current snapshots around the threshold
Stores == { StoreRows(MIN_RECORDS - 1, 2), StoreRows(MIN_RECORDS + 10, 3) }

ShortArchives == { None, Some(FileRows(MIN_RECORDS - 1, 2, 3)) }

FullArchives == { Some(FileRows(MIN_RECORDS, 0, 3)), Some(FileRows(MIN_RECORDS, 0, 1)) }

Snapshots == { None, Some(<<>>), Some(<<FileRow("A", T1, Some(1), Some(0))>>),
               Some(<<FileRow("A", T1, Some(100), Some(60)),
                      FileRow("B", T1, Some(50), Some(40)),
                      FileRow("C", T1, Some(0), Some(0)),
                      FileRow("D", T1, None, Some(5))>>) }

\* every store with every archive; the snapshot varies where a run can reach it
DataCases ==
    (Stores \X ShortArchives \X Snapshots)
        \cup (({StoreRows(MIN_RECORDS, 0)} \cup Stores) \X FullArchives \X {None})

\* training runs one after another over a store with history and the data files
InitResolve ==
    /\ backend = "sqlite"
    /\ feed = {}
    /\ clock = 1
    /\ model_metadata = {}
    /\ model_file = 0
    /\ metadata_file = [version |-> None, run |-> 0]
    /\ trainer = [t \in Trainers |-> IdleTrainer]
    /\ runs = 0
    /\ observed = [active |-> 0, rows |-> 0]
    /\ last_version = None
    /\ parking_locations =
            {[id |-> 1, city |-> CITY, parking_name |-> "A", capacity |-> Some(100),
              is_active |-> TRUE]}
    /\ raw_parking_data = {}
    /\ \E case \in DataCases :
        /\ processed_parking_data = case[1]
        /\ historical_file = case[2]
        /\ current_file = case[3]
    /\ frame = NoFrame
    /\ sess = [w \in Workers |-> Idle]
    /\ used = 0
    /\ last = [batch |-> <<>>, nraw |-> 0, nproc |-> 0, twice |-> FALSE]
    /\ supplied = [n \in Names |-> None]
    /\ predictions = {}
    /\ server = NotServing
    /\ sample = NoSample
    /\ reconciled = NoCall

NextResolve == train_model("t1") \/ Tick

SpecResolve == InitResolve /\ [][NextResolve]_vars

\* draws of the generator's inner loop
NextSynthetic == generate_sample

InitSynthetic == InitStore({}) /\ InitFiles(None, None)

SpecSynthetic == InitSynthetic /\ [][NextSynthetic]_vars

\* a serving process over a trained model, and the clients of the tracker
InitPredict ==
    /\ backend \in Backends
    /\ feed = {}
    /\ clock = 1
    /\ model_metadata = {ModelMetadata(1, 1, 1, MIN_RECORDS, FALSE, model_path)}
    /\ model_file = 1
    /\ metadata_file = [version |-> Some(1), run |-> 1]
    /\ trainer = [t \in Trainers |-> IdleTrainer]
    /\ runs = 1
    /\ observed = [active |-> 0, rows |-> 0]
    /\ last_version = Some(1)
    /\ parking_locations =
            { [id |-> 1, city |-> CITY, parking_name |-> "A", capacity |-> Some(100),
               is_active |-> TRUE],
              [id |-> 2, city |-> CITY, parking_name |-> "B", capacity |-> Some(80),
               is_active |-> TRUE],
              [id |-> 3, city |-> CITY, parking_name |-> "C", capacity |-> None,
               is_active |-> TRUE] }
    /\ raw_parking_data = {}
    /\ processed_parking_data = {}
    /\ sess = [w \in Workers |-> Idle]
    /\ used = 0
    /\ last = [batch |-> <<>>, nraw |-> 0, nproc |-> 0, twice |-> FALSE]
    /\ supplied = [n \in Names |-> None]
    /\ historical_file = None
    /\ current_file = Some(ServedSnapshot)
    /\ frame = NoFrame
    /\ predictions = {}
    /\ server = NotServing
    /\ sample = NoSample
    /\ reconciled = NoCall

NextPredict == app_import \/ predict \/ record_prediction \/ reconcile

\* the updater without a database and the processing script, on the same files
InitCsv == InitStore({}) /\ InitFiles(None, None)

NextCsv == update_all \/ process_parking_data

SpecCsv == InitCsv /\ [][NextCsv]_vars

\* the server is started and serves while one training run rewrites the files
InitServe ==
    /\ backend \in Backends
    /\ feed = {}
    /\ clock = 1
    /\ model_metadata = {ModelMetadata(1, 1, 1, MIN_RECORDS, FALSE, model_path)}
    /\ model_file = 1
    /\ metadata_file = [version |-> Some(1), run |-> 1]
    /\ trainer = [t \in Trainers |-> IdleTrainer]
    /\ runs = 1
    /\ observed = [active |-> 0, rows |-> 0]
    /\ last_version = Some(1)
    /\ parking_locations =
            { [id |-> 1, city |-> CITY, parking_name |-> "A", capacity |-> Some(100),
               is_active |-> TRUE] }
    /\ raw_parking_data = {}
    /\ processed_parking_data = {}
    /\ sess = [w \in Workers |-> Idle]
    /\ used = 0
    /\ last = [batch |-> <<>>, nraw |-> 0, nproc |-> 0, twice |-> FALSE]
    /\ supplied = [n \in Names |-> None]
    /\ historical_file = Some(FileRows(MIN_RECORDS, 0, 3))
    /\ current_file = Some(ServedSnapshot)
    /\ frame = NoFrame
    /\ predictions = {}
    /\ server = NotServing
    /\ sample = NoSample
    /\ reconciled = NoCall

NextServe == train_model("t1") \/ Tick \/ app_import \/ predict

SpecServe == InitServe /\ [][NextServe]_vars

SpecPredict == InitPredict /\ [][NextPredict]_vars

-----------------------------------------------------------------------------
(* Properties of the ingestor *)

RawKey(r) == <<r.location_id, r.source_timestamp>>

ProcKey(r) == <<r.location_id, r.timestamp>>

NoDuplicateRaw ==
    \A r1, r2 \in raw_parking_data : RawKey(r1) = RawKey(r2) => r1 = r2

NoDuplicateProcessed ==
    \A r1, r2 \in processed_parking_data : ProcKey(r1) = ProcKey(r2) => r1 = r2

\* C1: a batch committed a second time in a row leaves the raw and processed row
\* counts at what its first commit left
C1_DedupIdempotence ==
    last.twice =>
        /\ Cardinality(raw_parking_data) = last.nraw
        /\ Cardinality(processed_parking_data) = last.nproc

\* C2: no two committed raw rows share (location, source_timestamp) and no two
\* committed processed rows share (location, timestamp), whatever batches ran
C2_ObservationUniqueness == NoDuplicateRaw /\ NoDuplicateProcessed

\* C6: every location's stored capacity is the last non-null capacity that the
\* committed batches supplied for its name (null while none was supplied)
C6_UpsertMonotonic ==
    \A l \in parking_locations : l.capacity = supplied[l.parking_name]

C6_Witness ==
    /\ last.batch # <<>>
    /\ \E l \in parking_locations :
        /\ l.capacity # None
        /\ last.batch[Len(last.batch)].name = l.parking_name
        /\ last.batch[Len(last.batch)].total = None
    /\ \E k \in 1..Len(last.batch) :
        /\ last.batch[k].total # None
        /\ \E l \in parking_locations :
            /\ l.parking_name = last.batch[k].name
            /\ l.capacity # None
            /\ l.capacity # last.batch[k].total

OneLocationPerName ==
    \A l1, l2 \in parking_locations :
        (l1.city = l2.city /\ l1.parking_name = l2.parking_name) => l1 = l2

LocationsKept ==
    /\ \A l \in parking_locations : \E m \in parking_locations' :
            m.id = l.id /\ m.city = l.city /\ m.parking_name = l.parking_name
    /\ \A m \in parking_locations' :
            m.id \notin Ids(parking_locations) =>
                ~\E l \in parking_locations :
                    l.city = m.city /\ l.parking_name = m.parking_name

\* C7: at most one location row per (city, name) in every state; a step never
\* deletes a location or re-keys it, and adds a row only for a (city, name) that
\* had none
C7_LocationIdentity == []OneLocationPerName /\ [][LocationsKept]_vars

C7_Witness ==
    \E l \in parking_locations :
        /\ Cardinality({ r \in raw_parking_data : r.location_id = l.id }) >= 2
        /\ \A w \in Workers : sess[w].pc = "done" /\ sess[w].overlapped

\* C8: when two ingestion transactions that were open at the same time have both
\* committed, no (location, timestamp) key has more than one raw or processed row
C8_ConcurrentDedup ==
    (\A w \in Workers : sess[w].pc = "done" /\ sess[w].overlapped)
        => (NoDuplicateRaw /\ NoDuplicateProcessed)

Tables == <<parking_locations, raw_parking_data, processed_parking_data>>

BatchStep ==
    /\ \A w \in Workers :
        (sess[w].pc # "failed" /\ sess'[w].pc = "failed") => Tables' = Tables
    /\ Tables' # Tables =>
        \E w \in Workers :
            /\ sess[w].pc = "commit" /\ sess'[w].pc = "done"
            /\ Cardinality(raw_parking_data') =
                    Cardinality(raw_parking_data) + Len(sess[w].batch)
            /\ Cardinality(processed_parking_data') =
                    Cardinality(processed_parking_data) + Len(sess[w].batch)
            /\ \A k \in 1..Len(sess[w].batch) :
                \E l \in parking_locations' :
                    /\ l.parking_name = sess[w].batch[k].name
                    /\ \E r \in raw_parking_data' \ raw_parking_data :
                            r.location_id = l.id
                    /\ \E r \in processed_parking_data' \ processed_parking_data :
                            r.location_id = l.id

\* C9: the committed tables change only in a session's commit step, which adds
\* the rows of every record of its batch together; a step in which a session
\* fails leaves the committed tables as they were
C9_BatchAtomicity == [][BatchStep]_vars

C9_Witness ==
    \E w \in Workers :
        /\ sess[w].pc = "failed"
        /\ sess[w].i >= 2
        /\ parking_locations = {}
        /\ raw_parking_data = {}
        /\ \E v \in Others(w) : sess[v].pc = "commit" /\ Len(sess[v].batch) >= 2

\* C10: after a batch ended on a malformed record (missing name, unparseable
\* timestamp), every well-formed record of that batch has its processed row
\* committed
C10_MalformedTolerated ==
    \A w \in Workers :
        (sess[w].pc = "failed" /\ sess[w].err \in {"IntegrityError", "BadTimestamp"}
            /\ \E k \in 1..Len(sess[w].batch) : ~WellFormed(sess[w].batch[k]))
        => \A k \in 1..Len(sess[w].batch) :
                WellFormed(sess[w].batch[k]) =>
                    \E r \in processed_parking_data :
                        /\ r.parking_name = sess[w].batch[k].name
                        /\ hour(r.timestamp) = sess[w].batch[k].published[2]
                        /\ weekday(r.timestamp) = sess[w].batch[k].published[1]

-----------------------------------------------------------------------------
(* Properties of the model registry *)

ActiveRows == { m \in model_metadata : m.is_active }

\* C3: once a run's registry write has committed, exactly one row is active and
\* its version is the version of the last run whose registry write committed
C3_SingleActiveVersion ==
    last_version # None =>
        /\ Cardinality(ActiveRows) = 1
        /\ \A m \in ActiveRows : m.version = last_version[1]

C3_Witness ==
    /\ Cardinality(model_metadata) >= 2
    /\ trainer["t1"].pc = "done"
    /\ trainer["t1"].outcome = "swallowed"
    /\ \E m \in ActiveRows : m.version = last_version[1] /\ m.run < trainer["t1"].run

\* C4: a reader that finds the registry non-empty finds exactly one active row
C4_AtomicActivation == observed.rows > 0 => observed.active = 1

\* C5: a run that ended without its registry write committed left the model
\* file as it was when the run began and no row of its own
C5_TrainingAtomicity ==
    \A t \in Trainers :
        (trainer[t].pc = "done" /\ trainer[t].outcome # "saved") =>
            /\ model_file = trainer[t].file0
            /\ ~\E m \in model_metadata : m.run = trainer[t].run

-----------------------------------------------------------------------------
(* Properties of the training data path *)

ValidStoreRows ==
    { r \in processed_parking_data :
        r.city = CITY /\ r.occupied # None /\ r.capacity # None /\ r.capacity[1] > 0 }

ValidArchiveRows ==
    IF historical_file = None THEN {}
    ELSE { i \in DOMAIN historical_file[1] :
            LET r == historical_file[1][i]
            IN  r.occupied # None /\ r.capacity # None /\ r.capacity[1] > 0 }

Resolved(t) == trainer[t].log.tier # "" /\ trainer[t].log.returned

\* C11: when the store holds at least 50 valid rows and the database tier's
\* query answered, load_training_data returns the database tier's dataset, as
\* many rows as the store has valid ones, not synthetic, and reads no file
C11_DatabaseTierWins ==
    \A t \in Trainers :
        (trainer[t].log.tier # "" /\ trainer[t].log.db_len # None
            /\ Cardinality(ValidStoreRows) >= MIN_RECORDS)
        => /\ trainer[t].log.returned
           /\ trainer[t].log.tier = "database"
           /\ ~trainer[t].log.needs_synthetic
           /\ trainer[t].log.n_loaded = Cardinality(ValidStoreRows)
           /\ trainer[t].log.archive_len = None

C11_Witness ==
    /\ Cardinality(ValidStoreRows) = MIN_RECORDS + 10
    /\ Cardinality(processed_parking_data) > MIN_RECORDS + 10
    /\ historical_file # None
    /\ trainer["t1"].log.tier = "database"
    /\ trainer["t1"].log.n_loaded = MIN_RECORDS + 10

DatabaseShort(t) ==
    trainer[t].log.db_len = None \/ Cardinality(ValidStoreRows) < MIN_RECORDS

ArchiveShort == Cardinality(ValidArchiveRows) < MIN_RECORDS

\* C12: the archive is read only after the database tier gave fewer than 50
\* valid rows (or none, having raised); a returned dataset is synthetic exactly
\* when the database tier and the filtered archive both gave fewer than 50; a
\* dataset returned as not synthetic has at least 50 rows
C12_TierOrdering ==
    \A t \in Trainers :
        /\ (trainer[t].log.tier \in {"archive", "synthetic"}) => DatabaseShort(t)
        /\ Resolved(t) =>
            /\ trainer[t].log.needs_synthetic <=> (DatabaseShort(t) /\ ArchiveShort)
            /\ trainer[t].log.needs_synthetic <=> (trainer[t].log.tier = "synthetic")
            /\ ~trainer[t].log.needs_synthetic => trainer[t].log.n_loaded >= MIN_RECORDS

C12_Witness ==
    /\ Cardinality(ValidStoreRows) = MIN_RECORDS - 1
    /\ historical_file # None
    /\ Cardinality(ValidArchiveRows) = MIN_RECORDS - 1
    /\ Cardinality(DOMAIN historical_file[1]) > MIN_RECORDS
    /\ Resolved("t1")
    /\ trainer["t1"].log.needs_synthetic
    /\ trainer["t1"].log.db_len # None

OwnRows(t) ==
    { m \in model_metadata \cup trainer[t].row_new : m.run = trainer[t].run }

RowsAsLogged ==
    \A t \in Trainers : \A m \in OwnRows(t) :
        /\ m.is_synthetic = trainer[t].log.needs_synthetic
        /\ m.is_synthetic <=> (trainer[t].log.tier = "synthetic")
        /\ m.n_samples = trainer[t].log.n_train + trainer[t].log.n_test

RowsKeepProvenance ==
    \A m \in model_metadata : \E n \in model_metadata' :
        n.id = m.id /\ n.run = m.run /\ n.is_synthetic = m.is_synthetic
            /\ n.n_samples = m.n_samples

\* C13: the registry row of a run carries the is_synthetic flag that
\* load_training_data returned to that run (true exactly when the fit was given
\* generated samples) and, as n_samples, the number of rows of the train and
\* test parts together; no later step changes either
C13_SyntheticFlagPropagates == []RowsAsLogged /\ [][RowsKeepProvenance]_vars

C13_Witness ==
    /\ \E m \in model_metadata :
        m.is_synthetic /\ ~m.is_active /\ m.n_samples = n_samples_per_parking
    /\ \E m \in model_metadata :
        m.is_synthetic /\ m.is_active /\ m.run = trainer["t1"].run

\* C19: a run whose load_training_data returned the database tier's dataset
\* derives its features and reaches the fit
C19_DatabaseTierTrainable ==
    \A t \in Trainers :
        (Resolved(t) /\ trainer[t].log.tier = "database") => trainer[t].log.err = ""

Degenerate(t) ==
    /\ trainer[t].log.tier # ""
    /\ trainer[t].log.n_rows = 0 \/ Cardinality(trainer[t].log.targets) < 2

\* C20: a run whose dataset is empty or has fewer than 2 distinct occupied
\* values writes no model file, no metadata file and no registry row
C20_DegenerateDataFatal ==
    \A t \in Trainers :
        Degenerate(t) =>
            /\ trainer[t].pc \in {"idle", "done"}
            /\ trainer[t].outcome = "raised"
            /\ model_file # trainer[t].run
            /\ metadata_file.run # trainer[t].run
            /\ OwnRows(t) = {}

-----------------------------------------------------------------------------
(* Properties of the synthetic generator *)

Sampled == sample.drawn /\ sample.out # None

\* C14 as stated: every sample has 0.05 * capacity <= occupied <= 0.95 * capacity
\* and occupied >= 0, occupied being the truncated product
C14_SyntheticClamp ==
    Sampled =>
        /\ 5 * sample.row[1].capacity[1] <= 100 * sample.out[1].occupied[1]
        /\ 100 * sample.out[1].occupied[1] <= 95 * sample.row[1].capacity[1]
        /\ sample.out[1].occupied[1] >= 0

\* C14 as amended: every sample has 0.05 * capacity - 1 < occupied <=
\* 0.95 * capacity and occupied >= 0: the truncation may take occupied below
\* 0.05 * capacity, by less than one space
C14_SyntheticClampTruncated ==
    Sampled =>
        /\ 5 * sample.row[1].capacity[1] < 100 * (sample.out[1].occupied[1] + 1)
        /\ 100 * sample.out[1].occupied[1] <= 95 * sample.row[1].capacity[1]
        /\ sample.out[1].occupied[1] >= 0

C14_Witness ==
    /\ Sampled
    /\ occupancy_rate(sample.row[1].capacity[1], sample.row[1].occupied[1],
                      sample.draw[1].hour, sample.draw[1].weekday,
                      sample.draw[1].noise) < 0
    /\ sample.row[1].capacity[1] = 30
    /\ sample.out[1].occupied[1] = 1

-----------------------------------------------------------------------------
(* Properties of the prediction tracker *)

IsPct(value, amount, capacity) ==
    /\ value # None
    /\ value[1].den > 0
    /\ value[1].num * capacity = amount * 100 * value[1].den

\* C15: a stored prediction's predicted_occupancy_pct is predicted_occupied /
\* capacity * 100 when capacity > 0 (40 of 80 is 50) and null when capacity is
\* null, zero or negative; no denominator is zero
C15_PredictionPct ==
    \A p \in predictions :
        /\ (p.capacity # None /\ p.capacity[1] > 0)
            => IsPct(p.predicted_occupancy_pct, p.predicted_occupied, p.capacity[1])
        /\ (p.capacity = None \/ p.capacity[1] <= 0) => p.predicted_occupancy_pct = None
        /\ (p.capacity = Some(80) /\ p.predicted_occupied = 40)
            => p.predicted_occupancy_pct[1].num = 50 * p.predicted_occupancy_pct[1].den

C15_Witness ==
    /\ \E p \in predictions :
        p.capacity = Some(80) /\ p.predicted_occupied = 40
            /\ p.predicted_occupancy_pct # None
    /\ \E p \in predictions :
        p.capacity # None /\ p.capacity[1] <= 0 /\ p.predicted_occupancy_pct = None

\* C16: every prediction written by predict for a garage of known capacity has
\* 0 <= predicted_occupied <= capacity
C16_StoredPredictionsClamped ==
    \A p \in predictions :
        (p.origin = "predict" /\ p.capacity # None)
            => (0 <= p.predicted_occupied /\ p.predicted_occupied <= p.capacity[1])

C16_Witness ==
    /\ \E p \in predictions :
        p.origin = "predict" /\ p.capacity = Some(100) /\ p.predicted_occupied = 100
    /\ \E p \in predictions :
        p.origin = "predict" /\ p.capacity # None /\ p.predicted_occupied = 0

\* C17: after update_prediction_actual on a stored prediction, the row has the
\* given actual_occupied, prediction_error = |predicted_occupied -
\* actual_occupied| (30 against 25 is 5) and actual_occupancy_pct =
\* actual_occupied / capacity * 100 by its stored capacity when that is > 0,
\* null otherwise
C17_ReconciliationError ==
    reconciled.found =>
        \A p \in predictions :
            p.id = reconciled.prediction_id =>
                /\ p.actual_occupied = Some(reconciled.actual_occupied)
                /\ p.prediction_error # None
                /\ p.prediction_error[1] >= 0
                /\ \/ p.prediction_error[1] = p.predicted_occupied - reconciled.actual_occupied
                   \/ p.prediction_error[1] = reconciled.actual_occupied - p.predicted_occupied
                /\ (p.predicted_occupied = 30 /\ reconciled.actual_occupied = 25)
                    => p.prediction_error = Some(5)
                /\ (p.capacity # None /\ p.capacity[1] > 0)
                    => IsPct(p.actual_occupancy_pct, reconciled.actual_occupied,
                             p.capacity[1])
                /\ (p.capacity = None \/ p.capacity[1] <= 0)
                    => p.actual_occupancy_pct = None

C17_Witness ==
    /\ \E p \in predictions :
        p.predicted_occupied = 30 /\ p.actual_occupied = Some(25)
            /\ p.prediction_error = Some(5)
    /\ \E p \in predictions :
        /\ p.id = reconciled.prediction_id
        /\ p.predicted_occupied < reconciled.actual_occupied
        /\ p.capacity = None

-----------------------------------------------------------------------------
(* Properties of the derivation at ingestion *)

\* the store as the first committed batch left it
FirstIngest == last.batch # <<>> /\ Cardinality(raw_parking_data) = Len(last.batch)

DistinctNamed(batch) ==
    /\ \A i \in DOMAIN batch : WellFormed(batch[i]) /\ batch[i].published = batch[1].published
    /\ \A i, j \in DOMAIN batch : i # j => batch[i].name # batch[j].name

Derived(p, record) ==
    /\ p.hour = record.published[2]
    /\ p.day_of_week = record.published[1]
    /\ p.is_weekend = (record.published[1] \in {5, 6})
    /\ (record.status # None) => p.is_open = Some(record.status[1] = "offen")
    /\ (record.status = None) => p.is_open = None
    /\ (record.total # None /\ record.free # None /\ record.total[1] > 0)
        => /\ p.occupied = Some(record.total[1] - record.free[1])
           /\ IsPct(p.occupancy_pct, record.total[1] - record.free[1], record.total[1])
    /\ (record.total = Some(100) /\ record.free = Some(40))
        => p.occupied = Some(60) /\ p.occupancy_pct[1].num = 60 * p.occupancy_pct[1].den
    /\ (record.total = Some(50) /\ record.free = Some(10))
        => p.occupied = Some(40) /\ p.occupancy_pct[1].num = 80 * p.occupancy_pct[1].den

DerivedOnce ==
    (FirstIngest /\ DistinctNamed(last.batch)) =>
        /\ Cardinality(parking_locations) = Len(last.batch)
        /\ Cardinality(processed_parking_data) = Len(last.batch)
        /\ \A i \in DOMAIN last.batch :
            /\ Cardinality({ p \in processed_parking_data :
                                p.parking_name = last.batch[i].name }) = 1
            /\ \A p \in processed_parking_data :
                p.parking_name = last.batch[i].name => Derived(p, last.batch[i])

DerivedKept == \A p \in processed_parking_data : p \in processed_parking_data'

\* C18: a first batch of k distinct named records at one timestamp leaves k
\* locations and k processed rows, each with occupied = capacity - free,
\* occupancy_pct = occupied / capacity * 100 and hour, weekday, weekend flag and
\* open flag of its record; a committed row keeps them
C18_EndToEndDerivation == []DerivedOnce /\ [][DerivedKept]_vars

C18_Witness ==
    /\ FirstIngest
    /\ DistinctNamed(last.batch)
    /\ Len(last.batch) = 2
    /\ \E p \in processed_parking_data :
        p.parking_name = "A" /\ p.occupied = Some(60) /\ p.hour = 10
    /\ \E p \in processed_parking_data :
        p.parking_name = "B" /\ p.occupied = Some(40) /\ p.day_of_week = 0

-----------------------------------------------------------------------------
(* Properties of the version identifiers *)

HasVersion(t) == trainer[t].pc \in {"dump_meta", "update", "update_wait", "insert", "commit"}

\* C21: the version a run obtains is strictly greater than the version of every
\* registry row of an earlier run, also when both runs fall in one second
C21_VersionOrdering ==
    HasVersion("t1") =>
        \A m \in model_metadata :
            m.run < trainer["t1"].run => m.version < trainer["t1"].version

-----------------------------------------------------------------------------
(* Properties of the rate model *)

Peak == {8, 9, 10, 17, 18, 19}

Business == 11..16

Shoulder == ({6, 7} \cup (19..22)) \ Peak

Overnight == {23} \cup (0..5)

HourBands == <<[hours |-> Peak, tenths |-> 12], [hours |-> Business, tenths |-> 10],
               [hours |-> Shoulder, tenths |-> 7], [hours |-> Overnight, tenths |-> 3]>>

\* C22: the rate before the noise is base_ratio * hour_factor * day_factor, the
\* hour factor being 1.2, 1.0, 0.7 or 0.3 by the band the hour lies in (19 is a
\* peak hour), the day factor 0.6 from weekday 5 on and 1.0 before; each hour
\* lies in exactly one band
C22_SyntheticRateModel ==
    (sample.drawn /\ sample.rate # None) =>
        /\ Cardinality({ b \in DOMAIN HourBands :
                            sample.draw[1].hour \in HourBands[b].hours }) = 1
        /\ \A b \in DOMAIN HourBands :
            sample.draw[1].hour \in HourBands[b].hours =>
                100 * sample.rate[1] =
                    1000 * sample.row[1].occupied[1] * HourBands[b].tenths
                        * (IF sample.draw[1].weekday \in {5, 6} THEN 6 ELSE 10)

C22_Witness ==
    /\ sample.drawn
    /\ sample.rate # None
    /\ sample.draw[1].hour = 19
    /\ sample.draw[1].weekday = 5
    /\ sample.row[1].occupied = Some(30)
    /\ sample.row[1].capacity = Some(100)
    /\ sample.rate[1] = 21600

-----------------------------------------------------------------------------
(* Properties of the generator's output *)

\* the rows load_training_data hands to the generator: train_model.py 80
GeneratorInput ==
    { current_file[1][i] : i \in { j \in DOMAIN current_file[1] :
        current_file[1][j].occupied # None /\ current_file[1][j].capacity # None } }

Generated(t) ==
    trainer[t].log.returned /\ trainer[t].log.needs_synthetic /\ current_file # None

\* C23: the generator gives exactly 200 samples for each input row with a
\* capacity > 0 and none for any other row of the snapshot; each sample carries
\* its row's name and capacity, an hour in 0..23 and a weekday in 0..6
C23_SyntheticSampleCount ==
    Generated("t1") =>
        /\ \A i \in DOMAIN current_file[1] :
            LET row == current_file[1][i]
                counts == trainer["t1"].log.generated
            IN  IF row \in GeneratorInput /\ row.capacity[1] > 0
                THEN row.parking_name \in DOMAIN counts
                        /\ counts[row.parking_name] = n_samples_per_parking
                ELSE row.parking_name \notin DOMAIN counts
        /\ \A s \in trainer["t1"].log.shape :
            /\ s.hour \in 0..23
            /\ s.weekday \in 0..6
            /\ \E row \in GeneratorInput :
                row.parking_name = s.parking_name /\ row.capacity = s.capacity

C23_Witness ==
    /\ Generated("t1")
    /\ DOMAIN trainer["t1"].log.generated = {"A", "B"}
    /\ trainer["t1"].log.n_rows = 2 * n_samples_per_parking
    /\ Len(current_file[1]) = 4

-----------------------------------------------------------------------------
(* Properties of repeated and unmatched reconciliation *)

ReconciledKept ==
    \A p \in predictions :
        p.actual_occupied # None =>
            \E q \in predictions' :
                /\ q.id = p.id
                /\ q.actual_occupied = p.actual_occupied
                /\ q.actual_occupancy_pct = p.actual_occupancy_pct
                /\ q.prediction_error = p.prediction_error

\* C24: once a prediction has its actual_occupied, no later step changes its
\* actual_occupied, actual_occupancy_pct or prediction_error
C24_ReconcileAtMostOnce == [][ReconciledKept]_vars

Called == reconciled' # reconciled

\* C25: a call of update_prediction_actual with an id no stored row has returns
\* no prediction and changes no row
C25_ReconcileUnknownId ==
    [][Called =>
        /\ reconciled'.found = (reconciled'.prediction_id \in Ids(predictions))
        /\ ~reconciled'.found => predictions' = predictions]_vars

C25_Witness ==
    /\ ~reconciled.found
    /\ reconciled.prediction_id = 2
    /\ Ids(predictions) = {1}
    /\ \A p \in predictions : p.actual_occupied = None

-----------------------------------------------------------------------------
(* Properties of what the server serves *)

Predicted == { p \in predictions' \ predictions : p.origin = "predict" }

\* C26: a row predict writes carries the version of the metadata the server
\* holds, and that metadata was written by the run whose fitted model the
\* server holds
C26_PredictionProvenance ==
    [][\A p \in Predicted :
        p.model_version = server.version /\ server.metadata_run = server.model]_vars

-----------------------------------------------------------------------------
(* Properties of the CSV files *)

\* C27: every frame a process_data builds has occupancy_pct = occupied /
\* capacity * 100 where capacity > 0, null where capacity is null, zero or
\* negative, and occupied null where capacity or free is missing; the same
\* holds of the processed rows of save_to_database
C27_GuardedOccupancyPct ==
    /\ frame.raised = ""
    /\ \A i \in DOMAIN frame.rows :
        LET r == frame.rows[i]
        IN  /\ (r.capacity # None /\ r.capacity[1] > 0 /\ r.occupied # None)
                => IsPct(r.occupancy_pct, r.occupied[1], r.capacity[1])
            /\ (r.capacity = None \/ r.capacity[1] <= 0) => r.occupancy_pct = None
            /\ (r.capacity = None \/ r.free_spaces = None) => r.occupied = None
    /\ \A p \in processed_parking_data :
        /\ (p.capacity = None \/ p.capacity[1] <= 0) => p.occupancy_pct = None
        /\ (p.capacity = None \/ p.free_spaces = None) => p.occupied = None

Key(r) == <<r.parking_name, r.timestamp>>

ArchiveUnique ==
    historical_file # None =>
        \A i, j \in DOMAIN historical_file[1] :
            Key(historical_file[1][i]) = Key(historical_file[1][j]) => i = j

ArchiveKeepsLast ==
    (frame'.module = "update_data" /\ historical_file' # None) =>
        /\ \A i \in DOMAIN current_file'[1] :
            (\A j \in DOMAIN current_file'[1] :
                j > i => Key(current_file'[1][j]) # Key(current_file'[1][i]))
            => \E k \in DOMAIN historical_file'[1] :
                    historical_file'[1][k] = current_file'[1][i]
        /\ historical_file # None =>
            \A i \in DOMAIN historical_file[1] :
                (\A j \in DOMAIN current_file'[1] :
                    Key(current_file'[1][j]) # Key(historical_file[1][i]))
                => \E k \in DOMAIN historical_file'[1] :
                        historical_file'[1][k] = historical_file[1][i]

\* C29: the archive holds at most one row per (parking_name, timestamp); an
\* append leaves, for each key it brings, its last row of that key, and keeps
\* the archive's rows of every other key
C29_ArchiveDedup == []ArchiveUnique /\ [][ArchiveKeepsLast]_vars

-----------------------------------------------------------------------------
(* Properties of the model file against the registry *)

AtRest(t) == trainer[t].pc \in {"idle", "done"}

\* C28: between training runs, the model file holds the fitted model of the run
\* that wrote the active registry row
C28_ServedModelMatchesRegistry ==
    AtRest("t1") =>
        \A m \in model_metadata : m.is_active => model_file = m.run

-----------------------------------------------------------------------------
(* Properties of a failing database tier *)

DatabaseRaised(t) == trainer[t].log.tier # "" /\ trainer[t].log.db_len = None

\* what the resolver gives over the same files when the store has no rows
OverEmptyStore == load_training_data({}, FALSE, historical_file, current_file)

\* C30: a run whose database tier raised went on to the archive and the
\* synthetic tier, and its resolver's answer is the one an answering database
\* with fewer than 50 rows would have led to
C30_DatabaseFailureFallsThrough ==
    \A t \in Trainers :
        DatabaseRaised(t) =>
            /\ trainer[t].log.tier \in {"archive", "synthetic"}
            /\ trainer[t].log.tier = OverEmptyStore.tier
            /\ trainer[t].log.returned = (OverEmptyStore.raised = "")
            /\ trainer[t].log.needs_synthetic = OverEmptyStore.needs_synthetic
            /\ trainer[t].log.n_loaded = len(OverEmptyStore.df)
            /\ trainer[t].log.archive_len = OverEmptyStore.archive_len
            /\ (Cardinality(ValidArchiveRows) >= MIN_RECORDS)
                => (trainer[t].log.returned /\ trainer[t].log.tier = "archive")

C30_Witness ==
    /\ DatabaseRaised("t1")
    /\ Cardinality(ValidStoreRows) >= MIN_RECORDS
    /\ trainer["t1"].log.returned
    /\ trainer["t1"].log.tier = "synthetic"
    /\ trainer["t1"].log.archive_len = Some(MIN_RECORDS - 1)

====
